---- MODULE Spec2Model ----
(***************************************************************************)
(* Model of journal_monitor.py: one scheduled, single-threaded run of      *)
(* JournalMonitor (construct, load the seen store, fetch and diff every    *)
(* feed of the registry, persist the store, send the digest), repeated by  *)
(* an external scheduler.  The environment owns the feeds on the web, the  *)
(* state file's medium and the mail transport.                             *)
(*                                                                         *)
(* Strings are sequences of one-character strings so that str.strip() is   *)
(* computed.  A feed entry is a record whose fields are the attributes the *)
(* entry has: a missing "title" or "link" is a missing field, as the       *)
(* attribute lookup of the feed library sees it.  A Python dict keyed by   *)
(* journal is a function whose domain is the set of keys.                  *)
(***************************************************************************)
EXTENDS Integers, Sequences, FiniteSets, TLC

\* ----- bounds of the model ------------------------------------------------
NumJournals == 2      \* journals of the registry that are modelled
MaxEntries == 3       \* entries on the web, all feeds together
MaxIrregular == 1     \* of which irregular ones
MaxList == 3          \* records of a list handed to send_email directly

\* ----- program constants --------------------------------------------------
RETRY_ATTEMPTS == 3

\* JOURNAL_FEEDS, in insertion order: journal i of the registry
JOURNAL_FEEDS == 1..NumJournals

\* ----- inputs --------------------------------------------------------------
\* what a journal may publish.  Regular entries have distinct clean titles;
\* the others repeat a title under another link, pad a title with
\* whitespace, or lack the title or the link
RegularEntries ==
    { [title |-> <<"A">>, link |-> <<"x">>],
      [title |-> <<"B">>, link |-> <<"x">>],
      [title |-> <<"C">>, link |-> <<"x">>] }
IrregularEntries ==
    { [title |-> <<"A">>, link |-> <<"y">>],
      [title |-> <<" ", "A">>, link |-> <<"x", " ">>],
      [link |-> <<"x">>],
      [title |-> <<"B">>] }
PublishedEntries == RegularEntries \cup IrregularEntries

VARIABLES
    web,            \* web[j]: the entries feed j serves now
    disk,           \* the state file ARTICLE_STORE
    pc,             \* position of the process
    seen_articles,  \* local of fetch_new_articles
    new_articles,   \* local of fetch_new_articles, then of main
    journal,        \* loop variable of line 106 (0 outside the loop)
    feed,           \* local of fetch_new_articles: result of fetch_feed
    attempt,        \* loop variable of fetch_feed
    nextEntry,      \* position of the loop of line 117 in feed.entries
    saved,          \* what save_seen_articles did in this run
    diskAtStart,    \* the state file when this run started
    sameFeeds,      \* no feed changed since the previous run started
    changed,        \* a feed changed since the last run started
    last,           \* how the process that just exited ended
    prev,           \* what is remembered of the previous run
    config,         \* the monitor's email_sender, email_password and
                    \* email_receiver: which of them are set
    body,           \* local of send_email: the lines of the message body
    slept,          \* calls of time.sleep in the current fetch_feed
    everReported    \* the (journal, title) pairs of all lists returned

vars == << web, disk, pc, seen_articles, new_articles, journal, feed, attempt,
           nextEntry, saved, diskAtStart, sameFeeds, changed, last, prev,
                    config, body, slept, everReported >>

\* ----- pure helpers ---------------------------------------------------------
RECURSIVE LStrip(_)
LStrip(s) == IF s # <<>> /\ Head(s) = " " THEN LStrip(Tail(s)) ELSE s

RECURSIVE RStrip(_)
RStrip(s) ==
    IF s # <<>> /\ s[Len(s)] = " " THEN RStrip(SubSeq(s, 1, Len(s) - 1)) ELSE s

\* str.strip()
Strip(s) == RStrip(LStrip(s))

\* hasattr(entry, name)
HasAttr(entry, name) == name \in DOMAIN entry

\* x in list
InList(x, list) == \E i \in 1..Len(list) : list[i] = x

EmptyDict == <<>>

\* the state file
AbsentFile == [kind |-> "absent", data |-> EmptyDict]
CorruptFile == [kind |-> "corrupt", data |-> EmptyDict]

\* json.dump(seen_articles, file): the document written
JsonDump(store) == [kind |-> "json", data |-> store]

\* json.load(file) of a document that parses
JsonLoad(file) == file.data

\* results of fetch_feed
ParsedFeed(entries) == [kind |-> "parsed", entries |-> entries]
EmptyFeedParserDict == [kind |-> "emptydict", entries |-> <<>>]
NoFeed == [kind |-> "none", entries |-> <<>>]

TotalEntries(w) ==
    LET RECURSIVE Sum(_)
        Sum(j) == IF j = 0 THEN 0 ELSE Len(w[j]) + Sum(j - 1)
    IN Sum(NumJournals)

Irregular(w) ==
    LET RECURSIVE Count(_, _)
        Count(j, i) ==
            IF j = 0 THEN 0
            ELSE IF i = 0 THEN Count(j - 1, IF j = 1 THEN 0 ELSE Len(w[j - 1]))
            ELSE (IF w[j][i] \in IrregularEntries THEN 1 ELSE 0)
                 + Count(j, i - 1)
    IN Count(NumJournals, Len(w[NumJournals]))

InsertAt(s, i, e) == SubSeq(s, 1, i - 1) \o <<e>> \o SubSeq(s, i, Len(s))

ExitStates == {"done", "failed", "killed"}

\* lines 61-63: os.getenv of each gives a non-empty string (TRUE), or None
\* or "" (FALSE)
RequiredEnv == {"EMAIL_SENDER", "EMAIL_PASSWORD", "EMAIL_RECEIVER"}

\* no monitor has been constructed
NoConfig == [v \in RequiredEnv |-> FALSE]

Running == pc \notin ExitStates \cup {"idle"}

\* the (journal, title) pairs of a new-article list
Reported(found) == { << found[i][1], found[i][2] >> : i \in 1..Len(found) }

\* the record of a process that exited; new_articles is the list that
\* fetch_new_articles returned, if it returned
Ended(err, transport) ==
    [error |-> err, smtp |-> transport, saved |-> saved,
     new_articles |-> IF saved = "none" THEN <<>> ELSE new_articles,
     sameFeeds |-> sameFeeds]

NoRun ==
    [error |-> "none", smtp |-> "unused", saved |-> "none",
     new_articles |-> <<>>, sameFeeds |-> FALSE]

\* what the next run's observer keeps of it
Remembered(run) ==
    [returned |-> run.saved # "none", saved |-> run.saved = "ok",
     sent |-> run.smtp = "sent", reported |-> Reported(run.new_articles)]

\* the process ends: its memory is gone
Exit(how, err, transport) ==
    /\ pc' = how
    /\ last' = Ended(err, transport)
    /\ seen_articles' = EmptyDict
    /\ new_articles' = <<>>
    /\ journal' = 0
    /\ feed' = NoFeed
    /\ attempt' = 0
    /\ nextEntry' = 0
    /\ saved' = "none"
    /\ sameFeeds' = FALSE
    /\ diskAtStart' = disk
    /\ body' = <<>>
    /\ slept' = 0
    /\ UNCHANGED << web, disk, changed, prev, everReported >>

\* ----- initial state --------------------------------------------------------
Init ==
    /\ web = [j \in JOURNAL_FEEDS |-> <<>>]
    /\ disk = AbsentFile
    /\ pc = "idle"
    /\ seen_articles = EmptyDict
    /\ new_articles = <<>>
    /\ journal = 0
    /\ feed = NoFeed
    /\ attempt = 0
    /\ nextEntry = 0
    /\ saved = "none"
    /\ diskAtStart = AbsentFile
    /\ sameFeeds = FALSE
    /\ changed = TRUE
    /\ last = NoRun
    /\ prev = Remembered(NoRun)
    /\ config = NoConfig
    /\ body = <<>>
    /\ slept = 0
    /\ everReported = {}

\* ----- environment ----------------------------------------------------------
\* a journal publishes an entry; feeds change between runs of the monitor
Publish ==
    /\ pc = "idle"
    /\ TotalEntries(web) < MaxEntries
    /\ \E j \in JOURNAL_FEEDS, e \in PublishedEntries :
         /\ e \in IrregularEntries => Irregular(web) < MaxIrregular
         /\ \E i \in 1..(Len(web[j]) + 1) :
               web' = [web EXCEPT ![j] = InsertAt(web[j], i, e)]
    /\ changed' = TRUE
    /\ UNCHANGED << disk, pc, seen_articles, new_articles, journal, feed,
                    attempt, nextEntry, saved, diskAtStart, sameFeeds, last, prev,
                    config, body, slept, everReported >>

\* the process is terminated from outside
Kill ==
    /\ Running
    /\ Exit("killed", "none", "unused")
    /\ UNCHANGED config

\* the process has exited; the scheduler waits for the next period
Wait ==
    /\ pc \in ExitStates
    /\ pc' = "idle"
    /\ prev' = Remembered(last)
    /\ last' = NoRun
    /\ config' = NoConfig
    /\ UNCHANGED << web, disk, seen_articles, new_articles, journal, feed,
                    attempt, nextEntry, saved, diskAtStart, sameFeeds, changed,
                    body, slept, everReported >>

\* ----- main() and JournalMonitor.__init__, lines 170-173 and 59-68 ------------

\* mutant: the recipient address is not required
ConfigComplete_NoReceiver(env) == env["EMAIL_SENDER"] /\ env["EMAIL_PASSWORD"]

\* all([self.email_sender, self.email_password, self.email_receiver])
ConfigComplete(env) == \A v \in RequiredEnv : env[v]

\* the scheduler starts the process, which constructs the monitor
Main ==
    /\ pc = "idle"
    /\ \E env \in [RequiredEnv -> BOOLEAN] :
         /\ config' = env
         /\ IF ConfigComplete(env)
            THEN /\ pc' = "load"
                 /\ sameFeeds' = ~changed
                 /\ changed' = FALSE
                 /\ UNCHANGED << web, disk, seen_articles, new_articles,
                                 journal, feed, attempt, nextEntry, saved,
                                 diskAtStart, last, prev, body, slept,
                                 everReported >>
            ELSE Exit("failed", "ValueError", "unused")

\* mutant: the loader ignores the file
LoadResult_Forgets(file) == EmptyDict

\* ----- load_seen_articles, lines 70-79 ---------------------------------------
\* what load_seen_articles returns when open() does not raise
LoadResult(file) ==
    IF file.kind = "json" THEN JsonLoad(file) ELSE EmptyDict

\* mutant: the save is inside the loop, after the first feed
AfterJournal_SaveEarly(j) == IF j < 1 THEN "fetch" ELSE "save"

\* for journal, url in JOURNAL_FEEDS.items(), line 106: where the loop goes
\* after journal j, and line 129 after the last one
AfterJournal(j) == IF j < NumJournals THEN "fetch" ELSE "save"

NextJournal(j) == IF j < NumJournals THEN j + 1 ELSE j

\* line 103; open() of an existing file may raise OSError, which only
\* main catches
Load ==
    /\ pc = "load"
    /\ \/ /\ seen_articles' = LoadResult(disk)
          /\ pc' = AfterJournal(0)
          /\ journal' = NextJournal(0)
          /\ UNCHANGED << web, disk, new_articles, feed, attempt,
                          nextEntry, saved, diskAtStart, sameFeeds, changed,
                          last, prev,
                    config, body, slept, everReported >>
       \/ /\ disk.kind # "absent"
          /\ Exit("failed", "OSError", "unused")
          /\ UNCHANGED config

\* ----- fetch_feed, lines 89-99 ------------------------------------------------
\* the last attempt of range(retries)
LastAttempt(a) == a = RETRY_ATTEMPTS - 1

\* feedparser.parse(url) returns the feed's entries
FetchOk ==
    /\ pc = "fetch"
    /\ feed' = ParsedFeed(web[journal])
    /\ attempt' = 0
    /\ slept' = 0
    /\ pc' = "check"
    /\ UNCHANGED << web, disk, seen_articles, new_articles, journal,
                    nextEntry, saved, diskAtStart, sameFeeds, changed, last,
                    prev, config, body, everReported >>

\* feedparser.parse(url) raises: the last attempt returns an empty
\* FeedParserDict, the others sleep RETRY_DELAY and try again
FetchFail ==
    /\ pc = "fetch"
    /\ IF LastAttempt(attempt)
       THEN /\ feed' = EmptyFeedParserDict
            /\ attempt' = 0
            /\ slept' = 0
            /\ pc' = "check"
       ELSE /\ feed' = feed
            /\ slept' = slept + 1
            /\ attempt' = attempt + 1
            /\ pc' = "fetch"
    /\ UNCHANGED << web, disk, seen_articles, new_articles, journal,
                    nextEntry, saved, diskAtStart, sameFeeds, changed, last,
                    prev, config, body, everReported >>

\* ----- fetch_new_articles, lines 110-115 --------------------------------------
\* feed.entries: a FeedParserDict looks an attribute up as a key and raises
\* AttributeError when the key is missing; feedparser.parse sets "entries",
\* the bare FeedParserDict() of lines 97 and 99 has no key at all
HasEntriesKey(f) == f.kind = "parsed"

\* if journal not in seen_articles: seen_articles[journal] = []
WithKey(store, j) ==
    IF j \in DOMAIN store THEN store ELSE store @@ (j :> <<>>)

CheckEntries ==
    /\ pc = "check"
    /\ IF ~HasEntriesKey(feed)
       THEN Exit("failed", "AttributeError", "unused") /\ UNCHANGED config
       ELSE /\ IF feed.entries = <<>>
               THEN /\ pc' = AfterJournal(journal)
                    /\ journal' = NextJournal(journal)
                    /\ feed' = NoFeed
                    /\ UNCHANGED << seen_articles, nextEntry >>
               ELSE /\ seen_articles' = WithKey(seen_articles, journal)
                    /\ nextEntry' = 1
                    /\ pc' = "entries"
                    /\ UNCHANGED << journal, feed >>
            /\ UNCHANGED << web, disk, new_articles, attempt, saved,
                            diskAtStart, sameFeeds, changed, last, prev,
                    config, body, slept, everReported >>

\* ----- fetch_new_articles, lines 117-127 --------------------------------------
\* entry.title and entry.link are both there (else AttributeError, line 126)
WellFormed(entry) == HasAttr(entry, "title") /\ HasAttr(entry, "link")

\* mutant: only the last title of the seen sequence is compared
IsNew_LastOnly(title, j, store) ==
    store[j] = <<>> \/ store[j][Len(store[j])] # title

\* mutant: a title seen under any journal counts as seen
IsNew_AnyJournal(title, j, store) ==
    \A k \in DOMAIN store : ~InList(title, store[k])

\* line 122: article_title not in seen_articles[journal]
IsNew(title, j, store) == ~InList(title, store[j])

\* mutant: line 124 is missing, the title is not marked seen
ProcessEntry_NoMark(store, found, j, entry) ==
    IF HasAttr(entry, "title") /\ HasAttr(entry, "link")
       /\ ~InList(Strip(entry.title), store[j])
    THEN [seen |-> store,
          new |-> Append(found,
                         << j, Strip(entry.title), Strip(entry.link) >>)]
    ELSE [seen |-> store, new |-> found]

\* mutant: the record is inserted at the head of the list
ProcessEntry_Prepend(store, found, j, entry) ==
    IF HasAttr(entry, "title") /\ HasAttr(entry, "link")
       /\ ~InList(Strip(entry.title), store[j])
    THEN [seen |-> [store EXCEPT ![j] = Append(@, Strip(entry.title))],
          new |-> << << j, Strip(entry.title), Strip(entry.link) >> >>
                     \o found]
    ELSE [seen |-> store, new |-> found]

\* mutant: line 123 is missing, the title is marked seen without a record
ProcessEntry_NoRecord(store, found, j, entry) ==
    IF HasAttr(entry, "title") /\ HasAttr(entry, "link")
       /\ ~InList(Strip(entry.title), store[j])
    THEN [seen |-> [store EXCEPT ![j] = Append(@, Strip(entry.title))],
          new |-> found]
    ELSE [seen |-> store, new |-> found]

\* mutant: the title is in the seen sequence before the link is read
ProcessEntry_MarkBeforeLink(store, found, j, entry) ==
    IF HasAttr(entry, "title") /\ ~InList(Strip(entry.title), store[j])
    THEN IF HasAttr(entry, "link")
         THEN [seen |-> [store EXCEPT ![j] = Append(@, Strip(entry.title))],
               new |-> Append(found, << j, Strip(entry.title),
                                        Strip(entry.link) >>)]
         ELSE [seen |-> [store EXCEPT ![j] = Append(@, Strip(entry.title))],
               new |-> found]
    ELSE [seen |-> store, new |-> found]

\* mutant: the title is put at the head of the seen sequence
ProcessEntry_Front(store, found, j, entry) ==
    IF HasAttr(entry, "title") /\ HasAttr(entry, "link")
       /\ ~InList(Strip(entry.title), store[j])
    THEN [seen |-> [store EXCEPT ![j] = << Strip(entry.title) >> \o @],
          new |-> Append(found,
                         << j, Strip(entry.title), Strip(entry.link) >>)]
    ELSE [seen |-> store, new |-> found]

\* the body of the loop of line 117 on one entry: the locals afterwards
ProcessEntry(store, found, j, entry) ==
    IF WellFormed(entry) /\ IsNew(Strip(entry.title), j, store)
    THEN [seen |-> [store EXCEPT ![j] = Append(@, Strip(entry.title))],
          new |-> Append(found,
                         << j, Strip(entry.title), Strip(entry.link) >>)]
    ELSE [seen |-> store, new |-> found]

\* mutant: the try of line 118 wraps the loop, a malformed entry ends it
MoreEntries_StopAtMalformed(entries, k) ==
    k < Len(entries) /\ HasAttr(entries[k], "title") /\ HasAttr(entries[k], "link")

\* line 117: the loop goes on to the entry after entry k
MoreEntries(entries, k) == k < Len(entries)

DiffEntry ==
    /\ pc = "entries"
    /\ LET r == ProcessEntry(seen_articles, new_articles, journal,
                             feed.entries[nextEntry])
       IN /\ seen_articles' = r.seen
          /\ new_articles' = r.new
    /\ IF MoreEntries(feed.entries, nextEntry)
       THEN /\ nextEntry' = nextEntry + 1
            /\ UNCHANGED << pc, journal, feed >>
       ELSE /\ nextEntry' = 0
            /\ pc' = AfterJournal(journal)
            /\ journal' = NextJournal(journal)
            /\ feed' = NoFeed
    /\ UNCHANGED << web, disk, attempt, saved, diskAtStart, sameFeeds,
                    changed, last, prev,
                    config, body, slept, everReported >>

\* ----- save_seen_articles, lines 81-87, called at line 129 --------------------
\* open(ARTICLE_STORE, "w") truncates the file before json.dump writes it;
\* an IOError of either is logged and swallowed
SaveOutcomes == {"ok", "openfail", "writefail"}

\* mutant: the save writes nothing
FileAfterSave_Unwritten(outcome, file, store) == file

FileAfterSave(outcome, file, store) ==
    CASE outcome = "ok" -> JsonDump(store)
      [] outcome = "openfail" -> file
      [] outcome = "writefail" -> CorruptFile

\* line 129, and the return of line 130
Save ==
    /\ pc = "save"
    /\ \E outcome \in SaveOutcomes :
         /\ disk' = FileAfterSave(outcome, disk, seen_articles)
         /\ saved' = outcome
    /\ seen_articles' = EmptyDict
    /\ journal' = 0
    /\ pc' = "send"
    /\ everReported' = everReported \cup Reported(new_articles)
    /\ UNCHANGED << web, new_articles, feed, attempt, nextEntry, diskAtStart,
                    sameFeeds, changed, last, prev, config, body, slept >>

\* ----- send_email, lines 138-152: the message body ------------------------------
\* mutant: the groups are kept in registry order of the journals
RECURSIVE ArticlesByJournal_Sorted(_)
ArticlesByJournal_Sorted(found) ==
    IF found = <<>> THEN <<>>
    ELSE LET groups == ArticlesByJournal_Sorted(SubSeq(found, 1, Len(found) - 1))
             r == found[Len(found)]
             at == { i \in 1..Len(groups) : groups[i].journal = r[1] }
             before == { i \in 1..Len(groups) : groups[i].journal < r[1] }
         IN IF at # {}
            THEN [i \in 1..Len(groups) |->
                    IF i \in at
                    THEN [groups[i] EXCEPT
                             !.articles = Append(@, << r[2], r[3] >>)]
                    ELSE groups[i]]
            ELSE InsertAt(groups, Cardinality(before) + 1,
                          [journal |-> r[1],
                           articles |-> << << r[2], r[3] >> >>])

\* lines 142-146: articles_by_journal, a dict in insertion order, as the
\* sequence of its items
RECURSIVE ArticlesByJournal(_)
ArticlesByJournal(found) ==
    IF found = <<>> THEN <<>>
    ELSE LET groups == ArticlesByJournal(SubSeq(found, 1, Len(found) - 1))
             r == found[Len(found)]
             at == { i \in 1..Len(groups) : groups[i].journal = r[1] }
         IN IF at # {}
            THEN [i \in 1..Len(groups) |->
                    IF i \in at
                    THEN [groups[i] EXCEPT
                             !.articles = Append(@, << r[2], r[3] >>)]
                    ELSE groups[i]]
            ELSE Append(groups, [journal |-> r[1],
                                 articles |-> << << r[2], r[3] >> >>])

\* the pieces the body is concatenated from
Greeting == [kind |-> "greeting", journal |-> 0, title |-> <<>>, link |-> <<>>]

\* line 150: "\n{journal}:\n"
JournalLine(j) ==
    [kind |-> "journal", journal |-> j, title |-> <<>>, link |-> <<>>]

\* line 152: "- {title}\n  {link}\n"
ArticleLines(article) ==
    [kind |-> "article", journal |-> 0,
     title |-> article[1], link |-> article[2]]

\* lines 139 and 149-152: the body
Body(found) ==
    LET groups == ArticlesByJournal(found)
        RECURSIVE Lines(_)
        Lines(g) ==
            IF g = 0 THEN << Greeting >>
            ELSE Lines(g - 1)
                 \o << JournalLine(groups[g].journal) >>
                 \o [a \in 1..Len(groups[g].articles) |->
                        ArticleLines(groups[g].articles[a])]
    IN Lines(Len(groups))

\* mutant: the guard of line 134 is missing
NothingToSend_Never(found) == FALSE

\* ----- send_email, lines 132-168, called at line 176 --------------------------
\* line 134: if not new_articles: return
NothingToSend(found) == found = <<>>

SendEmail ==
    /\ pc = "send"
    /\ IF NothingToSend(new_articles)
       THEN Exit("done", "none", "unused") /\ UNCHANGED config
       ELSE /\ pc' = "smtp"
            /\ body' = Body(new_articles)
            /\ UNCHANGED << web, disk, seen_articles, new_articles, journal,
                            feed, attempt, nextEntry, saved, diskAtStart,
                            sameFeeds, changed, last, prev, config, slept,
                            everReported >>

\* lines 160-168: connect, starttls, login, send_message; any exception is
\* logged and raised again, and main raises it again
Transport ==
    /\ pc = "smtp"
    /\ \/ Exit("done", "none", "sent")
       \/ Exit("failed", "SMTPException", "error")
    /\ UNCHANGED config

Next ==
    \/ Publish
    \/ Kill
    \/ Wait
    \/ Main
    \/ Load
    \/ FetchOk
    \/ FetchFail
    \/ CheckEntries
    \/ DiffEntry
    \/ Save
    \/ SendEmail
    \/ Transport

Spec == Init /\ [][Next]_vars

\* ----- send_email called on any list ---------------------------------------------
\* the (journal, title, link) records a caller may pass
MailRecords ==
    { << j, t, l >> : j \in JOURNAL_FEEDS,
                      t \in { <<"A">>, <<"B">> }, l \in { <<"x">>, <<"y">> } }

MailLists == UNION { [1..n -> MailRecords] : n \in 0..MaxList }

\* a constructed monitor whose send_email is about to be called, line 176
InitMail ==
    /\ web = [j \in JOURNAL_FEEDS |-> <<>>]
    /\ disk = AbsentFile
    /\ pc = "send"
    /\ seen_articles = EmptyDict
    /\ new_articles \in MailLists
    /\ journal = 0
    /\ feed = NoFeed
    /\ attempt = 0
    /\ nextEntry = 0
    /\ saved = "openfail"     \* the list was returned, there is no file
    /\ diskAtStart = AbsentFile
    /\ sameFeeds = FALSE
    /\ changed = FALSE
    /\ last = NoRun
    /\ prev = Remembered(NoRun)
    /\ config = [v \in RequiredEnv |-> TRUE]
    /\ body = <<>>
    /\ slept = 0
    /\ everReported = Reported(new_articles)

NextMail ==
    \/ SendEmail
    \/ Transport

SpecMail == InitMail /\ [][NextMail]_vars

\* ===== properties ==============================================================
\* fetch_new_articles has returned its list to main
Returned == pc \in {"send", "smtp"}

\* the store a run would load from a file
Persisted(file) == LoadResult(file)

\* the seen sequence of journal j in a store, empty without the key
SeenIn(store, j) == IF j \in DOMAIN store THEN store[j] ELSE <<>>

\* the seen sequence of journal j as this run loaded it
SeenAtLoad(j) == SeenIn(Persisted(diskAtStart), j)

IsPrefix(a, b) == Len(a) <= Len(b) /\ SubSeq(b, 1, Len(a)) = a

\* the entries of feed j that this run has gone through
Diffed(j) ==
    IF pc \in {"save", "send", "smtp"} THEN Len(web[j])
    ELSE IF pc \in {"fetch", "check"} /\ j < journal THEN Len(web[j])
    ELSE IF pc = "entries" /\ j < journal THEN Len(web[j])
    ELSE IF pc = "entries" /\ j = journal THEN nextEntry - 1
    ELSE 0

\* the records of journal j in a new-article list, in order
RECURSIVE RecordsOf(_, _)
RecordsOf(found, j) ==
    IF found = <<>> THEN <<>>
    ELSE IF Head(found)[1] = j
         THEN << Head(found) >> \o RecordsOf(Tail(found), j)
         ELSE RecordsOf(Tail(found), j)

\* entry i of feed j is well-formed and the first such entry of its title
FirstOfTitle(j, i) ==
    /\ WellFormed(web[j][i])
    /\ \A h \in 1..(i - 1) :
         WellFormed(web[j][h]) =>
            Strip(web[j][h].title) # Strip(web[j][i].title)

\* C1 as claimed: a second run on unchanged feeds reports nothing
C1_IdempotentAsClaimed ==
    (Returned /\ sameFeeds /\ prev.returned) => new_articles = <<>>

\* C1, amended: a second run on unchanged feeds reports nothing when the
\* first run's save of the store succeeded
C1_Idempotent ==
    (Returned /\ sameFeeds /\ prev.saved) => new_articles = <<>>

\* the second of two runs on unchanged, non-empty feeds has returned, the
\* first having reported articles and saved them
C1_Witness ==
    /\ Returned /\ sameFeeds /\ prev.saved
    /\ prev.reported # {}
    /\ new_articles = <<>>

\* C2 as claimed: the persisted store only grows during a run: every key
\* persisted when the run started is still there, its sequence a prefix of
\* the one persisted now
C2_Monotone ==
    \A j \in DOMAIN Persisted(diskAtStart) :
        /\ j \in DOMAIN Persisted(disk)
        /\ IsPrefix(Persisted(diskAtStart)[j], Persisted(disk)[j])

\* C3: at-most-once report.  A run that saved the store has every title it
\* reports in the persisted store, and when that run then did not get its
\* mail out (the transport failed, or the process was killed), the next
\* run reports none of those articles again
C3_AtMostOnce ==
    /\ (Returned /\ saved = "ok") =>
          \A n \in 1..Len(new_articles) :
             InList(new_articles[n][2],
                    SeenIn(Persisted(disk), new_articles[n][1]))
    /\ (prev.saved /\ ~prev.sent) =>
          \A n \in 1..Len(new_articles) :
             << new_articles[n][1], new_articles[n][2] >> \notin prev.reported

\* the run after one that reported articles, saved them and sent no mail
\* has gone through the same feeds again
C3_Witness ==
    /\ prev.saved /\ ~prev.sent /\ prev.reported # {}
    /\ Returned /\ sameFeeds
    /\ \E j \in JOURNAL_FEEDS : \E i \in 1..Len(web[j]) :
          /\ WellFormed(web[j][i])
          /\ << j, Strip(web[j][i].title) >> \in prev.reported

\* C4: a well-formed entry is added to the new-article list exactly when
\* its stripped title is not in the journal's seen sequence at that moment;
\* the link decides nothing
C4_NewIffUnseen ==
    [][ (pc = "entries" /\ pc' # "killed"
            /\ WellFormed(feed.entries[nextEntry])) =>
           LET e == feed.entries[nextEntry]
               t == Strip(e.title)
           IN IF InList(t, seen_articles[journal])
              THEN new_articles' = new_articles
              ELSE new_articles' =
                      Append(new_articles, << journal, t, Strip(e.link) >>)
      ]_vars

\* an entry whose title was seen, under a link never seen, has been passed
\* over, and the unseen entry after it has been reported
C4_Witness ==
    /\ pc = "entries" /\ nextEntry = 3
    /\ feed.entries[1] = [title |-> <<"A">>, link |-> <<"y">>]
    /\ InList(<<"A">>, SeenAtLoad(journal))
    /\ WellFormed(feed.entries[2])
    /\ new_articles =
          << << journal, Strip(feed.entries[2].title),
                Strip(feed.entries[2].link) >> >>

\* C5 as claimed: when every fetch attempt of a feed failed, the feed adds
\* no record and the run goes on to the next feed, or to the save
C5_ExhaustionIsLocal ==
    [][ (pc = "check" /\ feed = EmptyFeedParserDict) =>
           \/ pc' = "killed"
           \/ pc' = AfterJournal(journal) /\ new_articles' = new_articles
      ]_vars

\* C6: in a feed with a malformed entry, every well-formed entry gone
\* through whose title was not seen at load has a record in the list
C6_MalformedIsolated ==
    \A j \in JOURNAL_FEEDS :
       (\E m \in 1..Len(web[j]) : ~WellFormed(web[j][m])) =>
          \A i \in 1..Diffed(j) :
             (/\ WellFormed(web[j][i])
              /\ ~InList(Strip(web[j][i].title), SeenAtLoad(j))) =>
                \E n \in 1..Len(new_articles) :
                   /\ new_articles[n][1] = j
                   /\ new_articles[n][2] = Strip(web[j][i].title)

\* all feeds have been gone through; the first had a malformed entry
\* between two unseen well-formed ones, and both are reported
C6_Witness ==
    /\ pc = "save"
    /\ Len(web[1]) = 3
    /\ WellFormed(web[1][1]) /\ ~WellFormed(web[1][2]) /\ WellFormed(web[1][3])
    /\ Len(RecordsOf(new_articles, 1)) = 2

\* C7: of the well-formed entries of one feed that share a title, only the
\* first gets a record, and none does when the title was seen at load
C7_DedupWithinRun ==
    \A j \in JOURNAL_FEEDS : \A i1, i2 \in 1..Diffed(j) :
       (/\ i1 < i2
        /\ FirstOfTitle(j, i1)
        /\ WellFormed(web[j][i2])
        /\ Strip(web[j][i2].title) = Strip(web[j][i1].title)) =>
          LET t == Strip(web[j][i1].title)
              records == { n \in 1..Len(new_articles) :
                             new_articles[n][1] = j /\ new_articles[n][2] = t }
          IN IF InList(t, SeenAtLoad(j))
             THEN records = {}
             ELSE /\ Cardinality(records) = 1
                  /\ \A n \in records :
                        new_articles[n][3] = Strip(web[j][i1].link)

\* a feed served the same unseen title under two links; the one record is
\* the first entry's
C7_Witness ==
    /\ pc = "save"
    /\ \E j \in JOURNAL_FEEDS :
          /\ Len(web[j]) >= 2
          /\ web[j][1] = [title |-> <<"A">>, link |-> <<"y">>]
          /\ web[j][2] = [title |-> <<"A">>, link |-> <<"x">>]
          /\ RecordsOf(new_articles, j) = << << j, <<"A">>, <<"y">> >> >>

\* the records feed j should have produced from its first n entries
RECURSIVE ExpectedRecords(_, _)
ExpectedRecords(j, n) ==
    IF n = 0 THEN <<>>
    ELSE IF /\ FirstOfTitle(j, n)
            /\ ~InList(Strip(web[j][n].title), SeenAtLoad(j))
         THEN Append(ExpectedRecords(j, n - 1),
                     << j, Strip(web[j][n].title), Strip(web[j][n].link) >>)
         ELSE ExpectedRecords(j, n - 1)

\* C8: the list is in registry order of the journals, and the records of
\* one journal are its new entries in the feed's order
C8_Ordering ==
    /\ \A a, b \in 1..Len(new_articles) :
          a < b => new_articles[a][1] <= new_articles[b][1]
    /\ \A j \in JOURNAL_FEEDS :
          RecordsOf(new_articles, j) = ExpectedRecords(j, Diffed(j))

\* a feed served e1, e2, e3 with e2 seen at load and e1, e3 not: the
\* records are e1 then e3
C8_Witness ==
    /\ pc = "save"
    /\ \E j \in JOURNAL_FEEDS :
          /\ Len(web[j]) = 3
          /\ \A i \in 1..3 : WellFormed(web[j][i])
          /\ InList(Strip(web[j][2].title), SeenAtLoad(j))
          /\ RecordsOf(new_articles, j) =
                << << j, Strip(web[j][1].title), Strip(web[j][1].link) >>,
                   << j, Strip(web[j][3].title), Strip(web[j][3].link) >> >>

\* C9: the mail transport is used only with a non-empty list, and a run
\* that returned an empty list ends done without having used it
C9_NoMailWhenEmpty ==
    /\ pc = "smtp" => new_articles # <<>>
    /\ (pc \in ExitStates /\ last.smtp # "unused") =>
          last.new_articles # <<>>
    /\ (/\ pc \in {"done", "failed"}
        /\ last.saved # "none"
        /\ last.new_articles = <<>>) =>
          (pc = "done" /\ last.smtp = "unused")

\* a run over feeds with entries found nothing new and ended done, no mail
C9_Witness ==
    /\ pc = "done"
    /\ last.saved = "ok" /\ last.new_articles = <<>> /\ last.smtp = "unused"
    /\ TotalEntries(web) > 0

\* C10 as claimed: once the monitor is constructed, a run fails only when
\* the mail transport fails
C10_OnlyTransportFails ==
    pc = "failed" => last.error \in {"ValueError", "SMTPException"}

\* one of the three required values is unset in the monitor being constructed
Unset(c) == \E v \in RequiredEnv : ~c[v]

\* C11: a process started with the sender address, the sender credential or
\* the recipient address unset fails in construction with ValueError, its
\* first step: no feed is fetched, the state file is neither read nor
\* written, nothing is returned and the mail transport is not used; the
\* failed process does nothing further.  With all three set, construction
\* succeeds and the run goes on to load the store
C11_FatalConfig ==
    [][ /\ (pc = "idle" /\ pc' # "idle") =>
              IF Unset(config')
              THEN /\ pc' = "failed"
                   /\ last'.error = "ValueError"
                   /\ last'.saved = "none"
                   /\ last'.smtp = "unused"
                   /\ last'.new_articles = <<>>
                   /\ disk' = disk
                   /\ feed' = NoFeed
                   /\ body' = <<>>
                   /\ everReported' = everReported
              ELSE pc' = "load"
        /\ (pc # "idle" /\ Unset(config)) =>
              /\ pc = "failed"
              /\ pc' = "idle"
              /\ disk' = disk
      ]_vars

\* a process started without the recipient address has failed, with a
\* state file on disk and entries in the feeds, after a run that worked
C11_Witness ==
    /\ pc = "failed"
    /\ last.error = "ValueError"
    /\ config = [v \in RequiredEnv |-> v # "EMAIL_RECEIVER"]
    /\ disk.kind = "json"
    /\ TotalEntries(web) > 0
    /\ prev.returned

\* the journals of a list
JournalsOf(found) == { found[i][1] : i \in 1..Len(found) }

\* where journal j first appears in a list
FirstIndex(found, j) ==
    CHOOSE i \in 1..Len(found) :
        /\ found[i][1] = j
        /\ \A h \in 1..(i - 1) : found[h][1] # j

\* the positions of the journal lines of a body
Headings(lines) == { k \in 1..Len(lines) : lines[k].kind = "journal" }

\* the lines of a body under the journal line at position k, up to the next
\* journal line
Under(lines, k) ==
    LET later == { n \in Headings(lines) : n > k }
        stop == IF later = {} THEN Len(lines) + 1
                ELSE CHOOSE n \in later : \A m \in later : n <= m
    IN SubSeq(lines, k + 1, stop - 1)

\* C12: the body built for a non-empty list has one journal line for every
\* journal of the list, in the order the journals first appear in the list;
\* under a journal's line are the (title, link) of that journal's records,
\* all of them and in their order in the list; and the body has nothing
\* else but its greeting, so that every record is there exactly once
C12_Content ==
    pc = "smtp" =>
       /\ new_articles # <<>>
       /\ body[1] = Greeting
       /\ Len(body) =
             1 + Cardinality(JournalsOf(new_articles)) + Len(new_articles)
       /\ { body[k].journal : k \in Headings(body) } = JournalsOf(new_articles)
       /\ \A k1, k2 \in Headings(body) :
             k1 < k2 => FirstIndex(new_articles, body[k1].journal)
                           < FirstIndex(new_articles, body[k2].journal)
       /\ \A k \in Headings(body) :
             LET records == RecordsOf(new_articles, body[k].journal)
                 under == Under(body, k)
             IN /\ Len(under) = Len(records)
                /\ \A a \in 1..Len(under) :
                      /\ under[a].kind = "article"
                      /\ under[a].title = records[a][2]
                      /\ under[a].link = records[a][3]

\* the body for a list in which the second journal comes first and the
\* records of the two journals alternate
C12_Witness ==
    /\ pc = "smtp"
    /\ new_articles = << << 2, <<"A">>, <<"x">> >>,
                         << 1, <<"B">>, <<"y">> >>,
                         << 2, <<"B">>, <<"x">> >> >>
    /\ body = << Greeting,
                 JournalLine(2),
                 ArticleLines(<< <<"A">>, <<"x">> >>),
                 ArticleLines(<< <<"B">>, <<"x">> >>),
                 JournalLine(1),
                 ArticleLines(<< <<"B">>, <<"y">> >>) >>

\* the titles of a sequence of records
TitlesOf(records) == [n \in 1..Len(records) |-> records[n][2]]

\* C13: after a run whose save succeeded, the persisted sequence of every
\* journal is the sequence the run loaded followed by the titles of the
\* journal's records of this run, in the order of the list, and no key that
\* was persisted is gone; when the run before also saved and no feed
\* changed since it started, the persisted store is what it was
C13_PersistedResult ==
    /\ (Returned /\ saved = "ok") =>
          /\ disk.kind = "json"
          /\ DOMAIN Persisted(diskAtStart) \subseteq DOMAIN Persisted(disk)
          /\ \A j \in JOURNAL_FEEDS :
                SeenIn(Persisted(disk), j) =
                   SeenAtLoad(j) \o TitlesOf(RecordsOf(new_articles, j))
    /\ (Returned /\ saved = "ok" /\ sameFeeds /\ prev.saved) =>
          Persisted(disk) = Persisted(diskAtStart)

\* a run that loaded a journal's titles and reported two more of that
\* journal has saved
C13_Witness ==
    /\ Returned /\ saved = "ok"
    /\ \E j \in JOURNAL_FEEDS :
          /\ SeenAtLoad(j) # <<>>
          /\ Len(RecordsOf(new_articles, j)) = 2
          /\ Len(SeenIn(Persisted(disk), j)) = Len(SeenAtLoad(j)) + 2

\* C14 as claimed: fetch_feed makes at most RETRY_ATTEMPTS attempts; an
\* attempt that succeeds ends it with the feed's entries; a failed attempt
\* that is not the last is followed by one sleep and the next attempt, so
\* that as many sleeps as failed attempts have been made; the last failed
\* attempt ends it, without a sleep, with the result an empty feed gives
C14_BoundedRetry ==
    [][ (pc = "fetch" /\ pc' # "killed") =>
           /\ attempt < RETRY_ATTEMPTS
           /\ slept = attempt
           /\ \/ /\ pc' = "check"
                 /\ feed' = ParsedFeed(web[journal])
              \/ /\ attempt < RETRY_ATTEMPTS - 1
                 /\ pc' = "fetch"
                 /\ attempt' = attempt + 1
                 /\ slept' = slept + 1
              \/ /\ attempt = RETRY_ATTEMPTS - 1
                 /\ pc' = "check"
                 /\ slept' # slept + 1
                 /\ feed' = ParsedFeed(<<>>)
      ]_vars

\* C15 as claimed: a journal whose feed has no entries and which had no key
\* in the store the run loaded has a key, with the empty sequence, in the
\* store the run persists
C15_StableKey ==
    (Returned /\ saved = "ok") =>
       \A j \in JOURNAL_FEEDS :
          (web[j] = <<>> /\ j \notin DOMAIN Persisted(diskAtStart)) =>
             /\ j \in DOMAIN Persisted(disk)
             /\ Persisted(disk)[j] = <<>>

\* C16 as claimed: a run whose save failed has returned its list all the
\* same, and the persisted store is the one the run started from
C16_FailedSaveKeepsStore ==
    (pc \in {"send", "smtp"} /\ saved \in {"openfail", "writefail"}) =>
       Persisted(disk) = Persisted(diskAtStart)

\* the run is before its save
BeforeSave == pc \in {"load", "fetch", "check", "entries", "save"}

\* every title of a list is in the store persisted in a file
MarkedSeen(found, file) ==
    \A n \in 1..Len(found) :
       InList(found[n][2], SeenIn(Persisted(file), found[n][1]))

\* the steps of a run in their order: the state file changes only in the
\* save, which comes once, when every feed of the registry has been
\* fetched and diffed, and before send_email; until then the file is what
\* it was when the run started, also when the run is interrupted or fails
PhaseOrder ==
    /\ disk' # disk =>
          /\ pc = "save" /\ pc' = "send"
          /\ saved = "none"
          /\ journal = NumJournals
          /\ \A j \in JOURNAL_FEEDS :
                RecordsOf(new_articles, j) = ExpectedRecords(j, Len(web[j]))
    /\ pc = "save" => pc' \in {"send", "killed"}
    /\ BeforeSave => (saved = "none" /\ disk = diskAtStart)
    /\ (BeforeSave /\ pc' \in ExitStates) => disk' = diskAtStart
    /\ pc \in {"send", "smtp"} => (saved # "none" /\ disk' = disk)

\* C17 as claimed: the steps are in this order, the file has been written
\* when send_email is called, and a run that is interrupted, or whose
\* send fails, after the save leaves the titles of its list marked seen
\* and no mail
C17_PhaseOrderAsClaimed ==
    [][ /\ PhaseOrder
        /\ pc \in {"send", "smtp"} => saved = "ok"
        /\ (pc \in {"send", "smtp"} /\ pc' \in {"killed", "failed"}) =>
              /\ MarkedSeen(new_articles, disk')
              /\ last'.smtp # "sent"
      ]_vars

\* C17, amended: the steps are in this order, the save has been called
\* once when send_email is called, and when it succeeded, a run that is
\* interrupted, or whose send fails, after it leaves the titles of its
\* list marked seen and no mail
C17_PhaseOrder ==
    [][ /\ PhaseOrder
        /\ (pc \in {"send", "smtp"} /\ saved = "ok"
               /\ pc' \in {"killed", "failed"}) =>
              /\ MarkedSeen(new_articles, disk')
              /\ last'.smtp # "sent"
      ]_vars

\* a run that found articles was interrupted after its save and before
\* the mail went out: the titles are in the state file
C17_Witness ==
    /\ pc = "killed"
    /\ last.saved = "ok" /\ last.smtp = "unused"
    /\ last.new_articles # <<>>
    /\ MarkedSeen(last.new_articles, disk)
    /\ disk.kind = "json"

\* C18: every title of the persisted store, and of the store in memory
\* beyond what was loaded, has been reported: it is, for its journal, in a
\* list that fetch_new_articles returned in an earlier run, or in the list
\* of the current run
C18_SeenWereReported ==
    /\ \A j \in DOMAIN Persisted(disk) :
          \A i \in 1..Len(Persisted(disk)[j]) :
             << j, Persisted(disk)[j][i] >> \in everReported
    /\ \A j \in DOMAIN seen_articles :
          \A i \in 1..Len(seen_articles[j]) :
             << j, seen_articles[j][i] >>
                \in everReported \cup Reported(new_articles)

\* the store holds titles of both journals, reported in different runs
C18_Witness ==
    /\ pc = "idle"
    /\ disk.kind = "json"
    /\ DOMAIN disk.data = JOURNAL_FEEDS
    /\ \A j \in JOURNAL_FEEDS : disk.data[j] # <<>>
    /\ Len(disk.data[1]) + Len(disk.data[2]) = 3
    /\ prev.saved /\ Cardinality(prev.reported) = 1
    /\ Cardinality(everReported) = 3

\* a sequence has no element twice
NoRepeat(list) ==
    \A a, b \in 1..Len(list) : a # b => list[a] # list[b]

\* C19: no seen sequence, of the store in memory or of the persisted
\* store, has a title twice
C19_NoDuplicateTitles ==
    /\ \A j \in DOMAIN seen_articles : NoRepeat(seen_articles[j])
    /\ \A j \in DOMAIN Persisted(disk) : NoRepeat(Persisted(disk)[j])

\* a feed that serves a title twice, under another link or padded, has
\* been diffed in a run that had loaded titles of the journal
C19_Witness ==
    /\ pc = "save"
    /\ \E j \in JOURNAL_FEEDS :
          /\ Len(web[j]) >= 2
          /\ \E i1, i2 \in 1..Len(web[j]) :
                /\ i1 < i2
                /\ WellFormed(web[j][i1]) /\ WellFormed(web[j][i2])
                /\ Strip(web[j][i1].title) = Strip(web[j][i2].title)
                /\ web[j][i1] # web[j][i2]
          /\ Len(seen_articles[j]) >= 2
          /\ SeenAtLoad(j) # <<>>

\* C20: the step of the loop on an entry without title or without link
\* leaves the new-article list and the store in memory as they are; and a
\* well-formed entry whose title was not in the loaded store and is the
\* title of no earlier well-formed entry of the feed gets its record,
\* whatever malformed entries of that title came before it
C20_SkippedChangesNothing ==
    [][ (pc = "entries" /\ pc' # "killed") =>
           LET e == feed.entries[nextEntry]
           IN /\ ~WellFormed(e) =>
                    /\ new_articles' = new_articles
                    /\ seen_articles' = seen_articles
              /\ (/\ WellFormed(e)
                  /\ ~InList(Strip(e.title), SeenAtLoad(journal))
                  /\ \A h \in 1..(nextEntry - 1) :
                        WellFormed(feed.entries[h]) =>
                           Strip(feed.entries[h].title) # Strip(e.title)) =>
                    new_articles' =
                       Append(new_articles,
                              << journal, Strip(e.title), Strip(e.link) >>)
      ]_vars

\* a run went through a feed whose only entry had the title B and no link
\* and saved the journal's key with no title; in the next run the feed has
\* a well-formed entry B as well, which is reported
C20_Witness ==
    /\ Returned
    /\ prev.saved /\ prev.reported = {}
    /\ \E j \in JOURNAL_FEEDS :
          /\ j \in DOMAIN Persisted(diskAtStart)
          /\ SeenAtLoad(j) = <<>>
          /\ web[j] = << [title |-> <<"B">>],
                         [title |-> <<"B">>, link |-> <<"x">>] >>
          /\ new_articles = << << j, <<"B">>, <<"x">> >> >>

====
